---------------------------- MODULE Spec2Model ----------------------------
(***************************************************************************)
(* Model of src/utils/config.py, the configuration module of the OCR API   *)
(* service: the module-load encoding setup, the configuration constants,   *)
(* the accessor and validation functions and the self-check entry point.   *)
(*                                                                         *)
(* Text encoding.  The module is written in ASCII.  Every non-ASCII code   *)
(* point of a Python string literal of the source is written as the one    *)
(* character "#", which occurs in no ASCII text of the program, so that    *)
(* lengths and positions are kept and "can this text be encoded as ASCII"  *)
(* is "does it hold no #".  The original literal is given in a comment.    *)
(***************************************************************************)
EXTENDS Integers, Sequences, FiniteSets, TLC

(* ------------------------------ bounds -------------------------------- *)

\* Interpreter recursion limit (sys.getrecursionlimit(); the source does not set it).
RecursionLimit == 4

\* How many elements a caller appends to a list it got from get_config_info.
MaxAppends == 1

(* ------------------------- strings (Python str) ----------------------- *)

NonAsciiChar == "#"

IsAscii(s) == \A i \in 1..Len(s) : SubSeq(s, i, i) # NonAsciiChar

StartsWith(s, c) == Len(s) >= 1 /\ SubSeq(s, 1, 1) = c

EndsWith(s, c) == Len(s) >= 1 /\ SubSeq(s, Len(s), Len(s)) = c

\* str.join: sep.join(items)
RECURSIVE str_join(_, _)
str_join(sep, items) ==
    IF items = << >> THEN ""
    ELSE IF Len(items) = 1 THEN Head(items)
    ELSE Head(items) \o sep \o str_join(sep, Tail(items))

\* str(arg).encode('ascii', 'replace').decode('ascii'): one "?" per non-ASCII code point
RECURSIVE ascii_replace(_)
ascii_replace(s) ==
    IF s = "" THEN ""
    ELSE (IF SubSeq(s, 1, 1) = NonAsciiChar THEN "?" ELSE SubSeq(s, 1, 1))
         \o ascii_replace(SubSeq(s, 2, Len(s)))

(* ------------------------- os.path.join ------------------------------- *)

\* posixpath.join(a, *p): a component that starts with "/" discards what precedes it.
RECURSIVE posixpath_join(_, _)
posixpath_join(path, rest) ==
    IF rest = << >> THEN path
    ELSE LET b == Head(rest)
             joined == IF StartsWith(b, "/") THEN b
                       ELSE IF path = "" \/ EndsWith(path, "/") THEN path \o b
                       ELSE path \o "/" \o b
         IN  posixpath_join(joined, Tail(rest))

\* ntpath.splitdrive for drive-letter paths ("C:..."); UNC paths are not among the inputs.
nt_drive(p) == IF Len(p) >= 2 /\ SubSeq(p, 2, 2) = ":" THEN SubSeq(p, 1, 2) ELSE ""

nt_rest(p) == SubSeq(p, Len(nt_drive(p)) + 1, Len(p))

nt_is_sep(c) == c = "\\" \/ c = "/"

\* ntpath.join(path, *paths), on the pair (result_drive, result_path).
RECURSIVE ntpath_join_loop(_, _, _)
ntpath_join_loop(result_drive, result_path, rest) ==
    IF rest = << >> THEN result_drive \o result_path
    ELSE LET p       == Head(rest)
             p_drive == nt_drive(p)
             p_path  == nt_rest(p)
         IN  IF Len(p_path) >= 1 /\ nt_is_sep(SubSeq(p_path, 1, 1))
             THEN \* second path is absolute
                  ntpath_join_loop(
                      IF p_drive # "" \/ result_drive = "" THEN p_drive ELSE result_drive,
                      p_path, Tail(rest))
             ELSE IF p_drive # "" /\ p_drive # result_drive
             THEN \* different drives: ignore the first path entirely
                  ntpath_join_loop(p_drive, p_path, Tail(rest))
             ELSE \* second path is relative to the first
                  ntpath_join_loop(
                      result_drive,
                      (IF Len(result_path) >= 1
                          /\ ~nt_is_sep(SubSeq(result_path, Len(result_path), Len(result_path)))
                       THEN result_path \o "\\" ELSE result_path) \o p_path,
                      Tail(rest))

ntpath_join(path, rest) == ntpath_join_loop(nt_drive(path), nt_rest(path), rest)

\* os.sep of the platform
os_sep(system) == IF system = "Windows" THEN "\\" ELSE "/"

\* os.path.join of the platform
os_path_join(system, path, rest) ==
    IF system = "Windows" THEN ntpath_join(path, rest) ELSE posixpath_join(path, rest)

(* ------------------------ configuration constants --------------------- *)

SERVER_HOST == "localhost"

SERVER_PORT_DEFAULT == 8080

\* The values SERVER_PORT is set to (the assignment of line 64, edited per deployment).
Ports == {80, 1023, 1024, SERVER_PORT_DEFAULT, 65535, 65536}

SERVER_DEBUG == FALSE

DET_MODEL_PATH == "models/det.onnx"

REC_MODEL_PATH == "models/rec.onnx"

OCR_KEYS_PATH == "models/ppocr_keys_v1.txt"

FONT_PATH == "assets/fonts/simfang.ttf"

TEST_IMAGES_DIR == "assets/images"

\* The list literal bound to TEST_IMAGES at module load.
TEST_IMAGES_LITERAL == <<"1.jpg", "11.jpg", "12.jpg">>

\* Float literals are kept as their decimal text; the module does no arithmetic on them.
DET_DB_THRESH == "0.3"

DET_DB_BOX_THRESH == "0.5"

MAX_CANDIDATES == 2000

UNCLIP_RATIO == "1.6"

USE_DILATION == TRUE

DROP_SCORE == "0.5"

\* ENDPOINTS, a dict: its keys and the lookup ENDPOINTS[key]
ENDPOINTS_keys == {"ocr", "health", "info"}

ENDPOINTS(key) ==
    CASE key = "ocr"    -> "/ocr"
      [] key = "health" -> "/health"
      [] key = "info"   -> "/"

\* dict.get(key, default)
ENDPOINTS_get(key, default) == IF key \in ENDPOINTS_keys THEN ENDPOINTS(key) ELSE default

REQUIRED_FILES == <<DET_MODEL_PATH, REC_MODEL_PATH, OCR_KEYS_PATH, FONT_PATH>>

PORT_MIN == 1024

PORT_MAX == 65535

\* f"http://{SERVER_HOST}:{SERVER_PORT}"
base_url(host, port) == "http://" \o host \o ":" \o ToString(port)

\* os.path.dirname(os.path.abspath(__file__)): the directory src/utils of the installation.
project_root(system) ==
    IF system = "Windows" THEN "C:\\app\\src\\utils" ELSE "/app/src/utils"


(* ------------------------------ functions ----------------------------- *)

\* get_test_image_path(filename), reading the globals PROJECT_ROOT and TEST_IMAGES_DIR
get_test_image_path(system, root, filename) ==
    os_path_join(system, root, <<TEST_IMAGES_DIR, filename>>)

\* the list comprehension of get_test_images, over the list bound to TEST_IMAGES
RECURSIVE images_comprehension(_, _, _, _)
images_comprehension(system, root, images, acc) ==
    IF images = << >> THEN acc
    ELSE images_comprehension(system, root, Tail(images),
                              Append(acc, get_test_image_path(system, root, Head(images))))

get_test_images(system, root, images) ==
    images_comprehension(system, root, images, << >>)

get_api_url_with_separator(api_base_url, endpoint) ==
    IF endpoint \in ENDPOINTS_keys THEN api_base_url \o ENDPOINTS(endpoint)
    ELSE api_base_url \o "/" \o endpoint

\* f"{API_BASE_URL}{ENDPOINTS.get(endpoint, endpoint)}"
get_api_url(api_base_url, endpoint) ==
    api_base_url \o ENDPOINTS_get(endpoint, endpoint)

\* os.path.exists(path) against the filesystem state: the set of paths that exist
os_path_exists(files, path) == path \in files

\* the for loop of check_required_files
RECURSIVE check_loop(_, _, _)
check_loop(todo, files, missing_files) ==
    IF todo = << >> THEN missing_files
    ELSE check_loop(Tail(todo), files,
                    IF ~os_path_exists(files, Head(todo))
                    THEN Append(missing_files, Head(todo))
                    ELSE missing_files)

\* a check that stops at the first missing file
RECURSIVE check_loop_first_only(_, _)
check_loop_first_only(todo, files) ==
    IF todo = << >> THEN << >>
    ELSE IF ~os_path_exists(files, Head(todo)) THEN <<Head(todo)>>
    ELSE check_loop_first_only(Tail(todo), files)

check_required_files_first_only(files) == check_loop_first_only(REQUIRED_FILES, files)

check_required_files(files) == check_loop(REQUIRED_FILES, files, << >>)

\* f"端口 {SERVER_PORT} 不在有效范围内 (1024-65535)"
port_error(port) == "## " \o ToString(port) \o " ####### (1024-65535)"

\* f"缺少必需文件: {', '.join(missing_files)}"
missing_error(missing_files) == "######: " \o str_join(", ", missing_files)

validate_config_exclusive_bounds(port, files) ==
    LET errors1 == IF ~(PORT_MIN < port /\ port < PORT_MAX)
                   THEN <<port_error(port)>> ELSE << >>
        missing_files == check_required_files(files)
    IN  IF missing_files # << >>
        THEN Append(errors1, missing_error(missing_files)) ELSE errors1

validate_config_port_first(port, files) ==
    IF ~(PORT_MIN <= port /\ port <= PORT_MAX) THEN <<port_error(port)>>
    ELSE LET missing_files == check_required_files(files)
         IN  IF missing_files # << >> THEN <<missing_error(missing_files)>> ELSE << >>

validate_config(port, files) ==
    LET errors0 == << >>
        errors1 == IF ~(PORT_MIN <= port /\ port <= PORT_MAX)
                   THEN Append(errors0, port_error(port)) ELSE errors0
        missing_files == check_required_files(files)
        errors2 == IF missing_files # << >>
                   THEN Append(errors1, missing_error(missing_files)) ELSE errors1
    IN  errors2

\* The list object bound to TEST_IMAGES, as it is held inside another object.
TEST_IMAGES_REF == [ref |-> "TEST_IMAGES"]

\* get_config_info(): fresh dicts of immutable values, and the TEST_IMAGES list object itself
get_config_info(port, api_base_url) ==
    [server |-> [host |-> SERVER_HOST, port |-> port, debug |-> SERVER_DEBUG,
                 base_url |-> api_base_url],
     models |-> [det_model |-> DET_MODEL_PATH, rec_model |-> REC_MODEL_PATH,
                 ocr_keys |-> OCR_KEYS_PATH, font |-> FONT_PATH],
     test   |-> [images_dir |-> TEST_IMAGES_DIR, images |-> TEST_IMAGES_REF],
     ocr    |-> [det_db_thresh |-> DET_DB_THRESH, det_db_box_thresh |-> DET_DB_BOX_THRESH,
                 max_candidates |-> MAX_CANDIDATES, unclip_ratio |-> UNCLIP_RATIO,
                 use_dilation |-> USE_DILATION, drop_score |-> DROP_SCORE]]

\* What a reader of the snapshot sees: the reference followed to the list's contents.
snapshot_view(snapshot, list_contents) ==
    [snapshot EXCEPT !.test.images =
        IF snapshot.test.images = TEST_IMAGES_REF THEN list_contents ELSE @]

(* ------------------------- json.dumps(..., indent=2) ------------------- *)

JSON_INDENT == 2

\* indentation of a nesting level: JSON_INDENT spaces per level
RECURSIVE json_pad(_)
json_pad(n) == IF n = 0 THEN "" ELSE " " \o json_pad(n - 1)

json_str(s) == "\"" \o s \o "\""

json_bool(b) == IF b THEN "true" ELSE "false"

\* one "key": value member line at nesting level 2
json_member(key, text) == json_pad(2 * JSON_INDENT) \o json_str(key) \o ": " \o text

\* a list of strings at nesting level 2, one element per line
RECURSIVE json_items(_)
json_items(items) ==
    IF items = << >> THEN << >>
    ELSE <<json_pad(3 * JSON_INDENT) \o json_str(Head(items))>> \o json_items(Tail(items))

json_list(items) ==
    IF items = << >> THEN "[]"
    ELSE "[\n" \o str_join(",\n", json_items(items)) \o "\n" \o json_pad(2 * JSON_INDENT) \o "]"

\* one "group": { members } object at nesting level 1
json_group(key, members) ==
    json_pad(JSON_INDENT) \o json_str(key) \o ": {\n" \o str_join(",\n", members)
        \o "\n" \o json_pad(JSON_INDENT) \o "}"

\* json.dumps(get_config_info(), indent=2, ensure_ascii=False), on what the dict holds
\* at the call; no string of the configuration needs a JSON escape.
json_dumps(v) ==
    "{\n" \o str_join(",\n", <<
        json_group("server", <<
            json_member("host", json_str(v.server.host)),
            json_member("port", ToString(v.server.port)),
            json_member("debug", json_bool(v.server.debug)),
            json_member("base_url", json_str(v.server.base_url))>>),
        json_group("models", <<
            json_member("det_model", json_str(v.models.det_model)),
            json_member("rec_model", json_str(v.models.rec_model)),
            json_member("ocr_keys", json_str(v.models.ocr_keys)),
            json_member("font", json_str(v.models.font))>>),
        json_group("test", <<
            json_member("images_dir", json_str(v.test.images_dir)),
            json_member("images", json_list(v.test.images))>>),
        json_group("ocr", <<
            json_member("det_db_thresh", v.ocr.det_db_thresh),
            json_member("det_db_box_thresh", v.ocr.det_db_box_thresh),
            json_member("max_candidates", ToString(v.ocr.max_candidates)),
            json_member("unclip_ratio", v.ocr.unclip_ratio),
            json_member("use_dilation", json_bool(v.ocr.use_dilation)),
            json_member("drop_score", v.ocr.drop_score)>>)
        >>) \o "\n}"

(* -------------------------------- print -------------------------------- *)

\* A print call's result: the exception it ends with ("none": it returned) and the
\* strings it wrote to sys.stdout, in order.

\* sys.stdout.write(text): text the stream's encoding cannot encode raises
encodable(text, utf8) == utf8 \/ IsAscii(text)

RECURSIVE stream_write(_, _, _)
stream_write(texts, utf8, out) ==
    IF texts = << >> THEN [exc |-> "none", out |-> out]
    ELSE IF encodable(Head(texts), utf8)
         THEN stream_write(Tail(texts), utf8, Append(out, Head(texts)))
         ELSE [exc |-> "UnicodeEncodeError", out |-> out]

\* the arguments of print separated by sep=" "
RECURSIVE with_sep(_)
with_sep(args) ==
    IF Len(args) <= 1 THEN args ELSE <<Head(args), " ">> \o with_sep(Tail(args))

\* the interpreter's own print(*args, end=end)
builtin_print(args, end, utf8) == stream_write(Append(with_sep(args), end), utf8, << >>)

\* The name print inside safe_print and inside the module is looked up in the module's
\* globals and then in builtins at each call: it is whatever builtins.print is bound to
\* (bp) when the call is made.
RECURSIVE call_print(_, _, _, _, _)
RECURSIVE safe_print(_, _, _, _, _)
RECURSIVE safe_print_ascii(_, _, _, _, _)

\* the except UnicodeEncodeError branch of safe_print: the for loop, then print()
safe_print_ascii(bp, args, utf8, depth, out) ==
    IF args = << >>
    THEN LET r == call_print(bp, << >>, "\n", utf8, depth + 1)
         IN  [exc |-> r.exc, out |-> out \o r.out]
    ELSE LET r1 == call_print(bp, <<ascii_replace(Head(args))>>, " ", utf8, depth + 1)
         IN  IF r1.exc = "none"
             THEN safe_print_ascii(bp, Tail(args), utf8, depth, out \o r1.out)
             ELSE \* bare except: print('[编码错误]', end=' ')
                  LET r2 == call_print(bp, <<"[####]">>, " ", utf8, depth + 1)
                  IN  IF r2.exc = "none"
                      THEN safe_print_ascii(bp, Tail(args), utf8, depth,
                                            out \o r1.out \o r2.out)
                      ELSE [exc |-> r2.exc, out |-> out \o r1.out \o r2.out]

\* safe_print(*args, **kwargs), running in a frame at the given stack depth
safe_print(bp, args, end, utf8, depth) ==
    IF depth > RecursionLimit THEN [exc |-> "RecursionError", out |-> << >>]
    ELSE LET r == call_print(bp, args, end, utf8, depth + 1)
         IN  IF r.exc = "UnicodeEncodeError"
             THEN safe_print_ascii(bp, args, utf8, depth, r.out)
             ELSE r

call_print(bp, args, end, utf8, depth) ==
    IF bp = "safe_print" THEN safe_print(bp, args, end, utf8, depth)
    ELSE builtin_print(args, end, utf8)

\* a sequence of print statements: the first exception ends it
RECURSIVE print_all(_, _, _, _)
print_all(bp, lines, utf8, out) ==
    IF lines = << >> THEN [exc |-> "none", out |-> out]
    ELSE LET r == call_print(bp, <<Head(lines)>>, "\n", utf8, 1)
         IN  IF r.exc = "none" THEN print_all(bp, Tail(lines), utf8, out \o r.out)
             ELSE [exc |-> r.exc, out |-> out \o r.out]

(* ------------------------- self-check entry point ---------------------- *)

\* print(f"  - {error}") for each error
RECURSIVE error_lines(_)
error_lines(errors) ==
    IF errors = << >> THEN << >> ELSE <<"  - " \o Head(errors)>> \o error_lines(Tail(errors))

\* "❌ 配置验证失败:"
FAILURE_HEADER == "# ######:"

\* "✅ 配置验证通过"
SUCCESS_MESSAGE == "# ######"

\* "\n📋 配置信息:"
INFO_HEADER == "\n# ####:"

\* the texts the block under if __name__ == "__main__" passes to print, in order
main_lines(errors, info_view) ==
    IF errors # << >> THEN <<FAILURE_HEADER>> \o error_lines(errors)
    ELSE <<SUCCESS_MESSAGE, INFO_HEADER, json_dumps(info_view)>>

\* the block under if __name__ == "__main__": the errors, what was written, how it ended
main(bp, utf8, port, api_base_url, files, images) ==
    LET errors == validate_config(port, files)
        view   == snapshot_view(get_config_info(port, api_base_url), images)
        r      == print_all(bp, main_lines(errors, view), utf8, << >>)
    IN  [errors |-> errors, out |-> r.out, exc |-> r.exc]

(* ------------------------------ inputs --------------------------------- *)

Systems == {"Windows", "Linux"}

RequiredFileSet == {REQUIRED_FILES[i] : i \in 1..Len(REQUIRED_FILES)}

Filenames == {"1.jpg", "", "sub/2.jpg", "/etc/passwd", "D:\\x.jpg", "..\\up.jpg"}

EndpointKeys == {"ocr", "health", "info", "unknown-key", "", "/ocr"}

PrintArgs == {<< >>, <<"ok">>, <<"#ok", "x">>}

AppendedNames == {"extra.jpg"}

\* how the call of the imported setup_windows_encoding helper can end
HelperOutcomes == {"returns", "ImportError", "Exception"}

\* which statement of the inline try block raises, if any
InlineRaises == {"none", "stdout.detach", "stderr.detach"}

(* ------------------------------- state --------------------------------- *)

VARIABLES
    pc,               \* where the process is: "encoding_setup", "inline_setup", "constants",
                      \* "main_guard", "ready" (imported), "exited", "load_failed"
    platform_system,  \* platform.system()
    SERVER_PORT,      \* the module global
    API_BASE_URL,     \* the module global, "" until bound
    PROJECT_ROOT,     \* the module global, "" until bound
    TEST_IMAGES,      \* contents of the list object bound to TEST_IMAGES
    fs,               \* the filesystem: the required paths that exist
    builtins_print,   \* what builtins.print is bound to: "builtin" or "safe_print"
    stdout_utf8,      \* whether sys.stdout encodes every code point
    caller_snapshot,  \* << >>, or <<d>> for the dict d a caller got from get_config_info
    ret               \* the last call of the module's interface and what it returned

vars == <<pc, platform_system, SERVER_PORT, API_BASE_URL, PROJECT_ROOT, TEST_IMAGES, fs,
          builtins_print, stdout_utf8, caller_snapshot, ret>>

Init ==
    /\ pc = "encoding_setup"
    /\ platform_system \in Systems
    /\ SERVER_PORT \in Ports
    /\ API_BASE_URL = ""
    /\ PROJECT_ROOT = ""
    /\ TEST_IMAGES = << >>
    /\ fs \in SUBSET RequiredFileSet
    /\ builtins_print = "builtin"
    /\ stdout_utf8 \in BOOLEAN
    /\ caller_snapshot = << >>
    /\ ret = [op |-> "none"]

(* ---------------------------- module load ------------------------------ *)

\* try: from src.utils.encoding_utils import setup_windows_encoding;
\*      setup_windows_encoding()
\* except ImportError: ...
ImportEncodingUtils(outcome) ==
    /\ pc = "encoding_setup"
    /\ \/ /\ outcome = "returns"
          /\ pc' = "constants"
          /\ stdout_utf8' \in {stdout_utf8, TRUE}
       \/ /\ outcome = "ImportError"
          /\ pc' = "inline_setup"
          /\ UNCHANGED stdout_utf8
       \/ /\ outcome = "Exception"       \* not an ImportError: no handler, the load ends
          /\ pc' = "load_failed"
          /\ UNCHANGED stdout_utf8
    /\ UNCHANGED <<platform_system, SERVER_PORT, API_BASE_URL, PROJECT_ROOT, TEST_IMAGES, fs,
                   builtins_print, caller_snapshot, ret>>

\* the body of except ImportError: the inline setup on Windows
InlineEncodingSetup(has_detach, raises) ==
    /\ pc = "inline_setup"
    /\ pc' = "constants"
    /\ \/ /\ platform_system # "Windows"
          /\ UNCHANGED <<stdout_utf8, builtins_print>>
       \/ /\ platform_system = "Windows"
          /\ raises = "none"
          /\ stdout_utf8' = (has_detach \/ stdout_utf8)
          /\ UNCHANGED builtins_print
       \/ /\ platform_system = "Windows"
          /\ has_detach
          /\ raises = "stdout.detach"    \* except Exception: builtins.print = safe_print
          /\ UNCHANGED stdout_utf8
          /\ builtins_print' = "safe_print"
       \/ /\ platform_system = "Windows"
          /\ has_detach
          /\ raises = "stderr.detach"    \* sys.stdout is already the UTF-8 writer
          /\ stdout_utf8' = TRUE
          /\ builtins_print' = "safe_print"
    /\ UNCHANGED <<platform_system, SERVER_PORT, API_BASE_URL, PROJECT_ROOT, TEST_IMAGES, fs,
                   caller_snapshot, ret>>

\* the assignments and definitions of the module body
DefineConstants ==
    /\ pc = "constants"
    /\ pc' = "main_guard"
    /\ API_BASE_URL' = base_url(SERVER_HOST, SERVER_PORT)
    /\ PROJECT_ROOT' = project_root(platform_system)
    /\ TEST_IMAGES' = TEST_IMAGES_LITERAL
    /\ UNCHANGED <<platform_system, SERVER_PORT, fs, builtins_print, stdout_utf8,
                   caller_snapshot, ret>>

\* __name__ == "__main__": the self-check runs and the process ends
RunAsScript ==
    /\ pc = "main_guard"
    /\ pc' = "exited"
    /\ ret' = [op |-> "main", files |-> fs,
               run |-> main(builtins_print, stdout_utf8, SERVER_PORT, API_BASE_URL, fs,
                            TEST_IMAGES)]
    /\ UNCHANGED <<platform_system, SERVER_PORT, API_BASE_URL, PROJECT_ROOT, TEST_IMAGES, fs,
                   builtins_print, stdout_utf8, caller_snapshot>>

\* the module was imported: its functions are there to be called
ImportedAsModule ==
    /\ pc = "main_guard"
    /\ pc' = "ready"
    /\ UNCHANGED <<platform_system, SERVER_PORT, API_BASE_URL, PROJECT_ROOT, TEST_IMAGES, fs,
                   builtins_print, stdout_utf8, caller_snapshot, ret>>

(* ------------------------------- calls --------------------------------- *)

Call(r) ==
    /\ pc = "ready"
    /\ ret' = r
    /\ UNCHANGED <<pc, platform_system, SERVER_PORT, API_BASE_URL, PROJECT_ROOT, TEST_IMAGES,
                   fs, builtins_print, stdout_utf8, caller_snapshot>>

Call_get_test_image_path(filename) ==
    Call([op |-> "get_test_image_path", filename |-> filename,
          value |-> get_test_image_path(platform_system, PROJECT_ROOT, filename)])

Call_get_test_images ==
    LET value == get_test_images(platform_system, PROJECT_ROOT, TEST_IMAGES)
    IN  Call([op |-> "get_test_images", images |-> TEST_IMAGES, value |-> value,
              prev |-> IF ret.op = "get_test_images" THEN <<ret.value>> ELSE << >>])

Call_get_api_url(endpoint) ==
    Call([op |-> "get_api_url", endpoint |-> endpoint,
          value |-> get_api_url(API_BASE_URL, endpoint)])

Call_check_required_files ==
    Call([op |-> "check_required_files", files |-> fs,
          value |-> check_required_files(fs),
          prev |-> IF ret.op = "check_required_files" /\ ret.files = fs
                   THEN <<ret.value>> ELSE << >>])

Call_validate_config ==
    Call([op |-> "validate_config", files |-> fs,
          value |-> validate_config(SERVER_PORT, fs)])

Call_print(args) ==
    Call([op |-> "print", args |-> args,
          run |-> call_print(builtins_print, args, "\n", stdout_utf8, 1)])

Call_get_config_info ==
    LET d == get_config_info(SERVER_PORT, API_BASE_URL)
    IN  /\ pc = "ready"
        /\ ret' = [op |-> "get_config_info", value |-> d,
                   view |-> snapshot_view(d, TEST_IMAGES)]
        /\ caller_snapshot' = <<d>>
        /\ UNCHANGED <<pc, platform_system, SERVER_PORT, API_BASE_URL, PROJECT_ROOT,
                       TEST_IMAGES, fs, builtins_print, stdout_utf8>>

\* a caller: info["test"]["images"].append(name) on a dict it got from get_config_info
CallerAppendsImage(name) ==
    /\ pc = "ready"
    /\ caller_snapshot # << >>
    /\ caller_snapshot[1].test.images = TEST_IMAGES_REF
    /\ Len(TEST_IMAGES) < Len(TEST_IMAGES_LITERAL) + MaxAppends
    /\ TEST_IMAGES' = Append(TEST_IMAGES, name)
    /\ UNCHANGED <<pc, platform_system, SERVER_PORT, API_BASE_URL, PROJECT_ROOT, fs,
                   builtins_print, stdout_utf8, caller_snapshot, ret>>

(* ----------------------------- environment ----------------------------- *)

CreateFile(path) ==
    /\ pc = "ready"
    /\ path \notin fs
    /\ fs' = fs \cup {path}
    /\ UNCHANGED <<pc, platform_system, SERVER_PORT, API_BASE_URL, PROJECT_ROOT, TEST_IMAGES,
                   builtins_print, stdout_utf8, caller_snapshot, ret>>

DeleteFile(path) ==
    /\ pc = "ready"
    /\ path \in fs
    /\ fs' = fs \ {path}
    /\ UNCHANGED <<pc, platform_system, SERVER_PORT, API_BASE_URL, PROJECT_ROOT, TEST_IMAGES,
                   builtins_print, stdout_utf8, caller_snapshot, ret>>

Next ==
    \/ \E outcome \in HelperOutcomes : ImportEncodingUtils(outcome)
    \/ \E has_detach \in BOOLEAN, raises \in InlineRaises :
           InlineEncodingSetup(has_detach, raises)
    \/ DefineConstants
    \/ RunAsScript
    \/ ImportedAsModule
    \/ \E filename \in Filenames : Call_get_test_image_path(filename)
    \/ Call_get_test_images
    \/ \E endpoint \in EndpointKeys : Call_get_api_url(endpoint)
    \/ Call_check_required_files
    \/ Call_validate_config
    \/ \E args \in PrintArgs : Call_print(args)
    \/ Call_get_config_info
    \/ \E name \in AppendedNames : CallerAppendsImage(name)
    \/ \E path \in RequiredFileSet : CreateFile(path)
    \/ \E path \in RequiredFileSet : DeleteFile(path)

Spec == Init /\ [][Next]_vars

(* ------------------------------- claims -------------------------------- *)

\* the required files that do not exist in a filesystem state, in declared order
MissingIn(files) == SelectSeq(REQUIRED_FILES, LAMBDA f : f \notin files)

PortInRange(port) == 1024 <= port /\ port <= 65535

\* C1: validate_config returns the empty list exactly when SERVER_PORT lies in
\* [1024, 65535] and all four required files exist; it always returns a list.
C1_ValidEmptyIffValid ==
    ret.op = "validate_config" =>
        /\ ret.value \in Seq(STRING)
        /\ ret.value = << >> <=>
               (PortInRange(SERVER_PORT) /\ RequiredFileSet \subseteq ret.files)

C1_Witness ==
    /\ ret.op = "validate_config"
    /\ ret.value = << >>
    /\ SERVER_PORT = 1024

\* C2: validate_config runs both checks in fixed order: at most two messages, the port
\* message (present exactly when the port is out of range) before the single missing-files
\* message (present exactly when a required file is missing, naming all missing paths
\* comma-joined in declared order); a port violation does not skip the file check.
C2_MessagesInOrder ==
    ret.op = "validate_config" =>
        LET missing  == MissingIn(ret.files)
            port_msg == "## " \o ToString(SERVER_PORT) \o " ####### (1024-65535)"
            file_msg == "######: " \o str_join(", ", missing)
        IN  /\ Len(ret.value) <= 2
            /\ ret.value = (IF PortInRange(SERVER_PORT) THEN << >> ELSE <<port_msg>>)
                           \o (IF missing = << >> THEN << >> ELSE <<file_msg>>)
            /\ (SERVER_PORT = 80 /\ ret.files = RequiredFileSet \ {FONT_PATH}) =>
                   ret.value = <<"## 80 ####### (1024-65535)",
                                 "######: assets/fonts/simfang.ttf">>
            /\ (SERVER_PORT = 8080 /\ ret.files = {REC_MODEL_PATH, OCR_KEYS_PATH}) =>
                   ret.value = <<"######: models/det.onnx, assets/fonts/simfang.ttf">>

C2_Witness ==
    /\ ret.op = "validate_config"
    /\ ~PortInRange(SERVER_PORT)
    /\ Cardinality(RequiredFileSet \ ret.files) >= 2
    /\ Len(ret.value) = 2

\* C3: each call of check_required_files returns exactly the required files that do not
\* exist when it is called, in declared order, whatever was created or deleted before;
\* a call that follows another with the same filesystem returns the same result.
C3_MissingAtCallTime ==
    ret.op = "check_required_files" =>
        /\ ret.value = MissingIn(ret.files)
        /\ ret.prev # << >> => ret.prev[1] = ret.value

C3_Witness ==
    /\ ret.op = "check_required_files"
    /\ ret.prev # << >>
    /\ ret.files = {DET_MODEL_PATH, OCR_KEYS_PATH}
    /\ ret.value = <<REC_MODEL_PATH, FONT_PATH>>

\* C4: get_api_url returns, for a key of ENDPOINTS, the base URL http://{host}:{port}
\* followed by the mapped path, and for any other key the base URL followed by the key
\* itself with nothing in between.
C4_UrlOrLiteralFallback ==
    ret.op = "get_api_url" =>
        LET base == "http://localhost:" \o ToString(SERVER_PORT)
            path == CASE ret.endpoint = "ocr"    -> "/ocr"
                      [] ret.endpoint = "health" -> "/health"
                      [] ret.endpoint = "info"   -> "/"
                      [] OTHER                   -> ret.endpoint
        IN  /\ ret.value = base \o path
            /\ (SERVER_PORT = 8080 /\ ret.endpoint = "health") =>
                   ret.value = "http://localhost:8080/health"
            /\ (SERVER_PORT = 8080 /\ ret.endpoint = "unknown-key") =>
                   ret.value = "http://localhost:8080unknown-key"

C4_Witness ==
    /\ ret.op = "get_api_url"
    /\ ret.endpoint = "unknown-key"
    /\ SERVER_PORT = 8080

\* C5: the encoding setup at module load never fails the program: whatever error occurs
\* in it is swallowed and the load goes on to the configuration constants.
C5_LoadNeverFails == pc # "load_failed"

\* C6: once safe_print is installed as builtins.print, every print call completes its
\* output: it returns, and what it wrote ends with the line end.
C6_FallbackPrintCompletes ==
    (ret.op = "print" /\ builtins_print = "safe_print") =>
        /\ ret.run.exc = "none"
        /\ ret.run.out # << >>
        /\ ret.run.out[Len(ret.run.out)] = "\n"

\* C7: for every filename, get_test_image_path returns the project root, the test-images
\* directory and the filename joined in that order with the platform path separator.
C7_RootDirFilename ==
    ret.op = "get_test_image_path" =>
        ret.value = PROJECT_ROOT \o os_sep(platform_system) \o TEST_IMAGES_DIR
                        \o os_sep(platform_system) \o ret.filename

\* C8: get_test_images returns one path per element of TEST_IMAGES, the i-th being
\* get_test_image_path(TEST_IMAGES[i]), and repeated calls return equal sequences.
C8_ImagesMappedAndRepeatable ==
    ret.op = "get_test_images" =>
        /\ Len(ret.value) = Len(ret.images)
        /\ \A i \in 1..Len(ret.images) :
               ret.value[i] = get_test_image_path(platform_system, PROJECT_ROOT, ret.images[i])
        /\ ret.prev # << >> => ret.prev[1] = ret.value

\* C9: the self-check prints the failure header and each error on its own prefixed line,
\* or the success message and the indented dump of get_config_info, and does not abort.
C9_SelfCheckPrintsAndReturns ==
    ret.op = "main" =>
        LET errors == validate_config(SERVER_PORT, ret.files)
            view   == snapshot_view(get_config_info(SERVER_PORT, API_BASE_URL), TEST_IMAGES)
            report == IF errors # << >>
                      THEN <<"# ######:", "\n">>
                           \o [i \in 1..(2 * Len(errors)) |->
                                  IF i % 2 = 1 THEN "  - " \o errors[(i + 1) \div 2] ELSE "\n"]
                      ELSE <<"# ######", "\n", "\n# ####:", "\n", json_dumps(view), "\n">>
        IN  /\ ret.run.exc = "none"
            /\ ret.run.out = report

\* C10: the configuration constants are never mutated through the module's functions:
\* whatever a caller does with a dict returned by get_config_info, TEST_IMAGES, the
\* result of get_test_images and a later get_config_info are as they were at load.
C10_ConstantsNeverMutated ==
    pc = "ready" =>
        /\ TEST_IMAGES = TEST_IMAGES_LITERAL
        /\ ret.op = "get_test_images" => Len(ret.value) = Len(TEST_IMAGES_LITERAL)
        /\ ret.op = "get_config_info" => ret.view.test.images = TEST_IMAGES_LITERAL

=============================================================================
